---- MODULE Spec2Model ----
(***************************************************************************)
(* Recursive-descent calculator (src/calc.py): Lexer, Parser, eval and the *)
(* process-wide variable table VARS.                                       *)
(*                                                                         *)
(* Python strings are sequences of one-character strings, so that the      *)
(* lexer's regular expressions and str.isalpha() are computed character    *)
(* by character.  A token or AST node, which calc.py tags dynamically      *)
(* (int, str or tuple), is a record whose field k is the Python type.      *)
(* A Python number is a record [n, d, fl]: the rational n/d, and fl tells  *)
(* whether Python holds it as a float.                                     *)
(***************************************************************************)
EXTENDS Integers, Sequences, FiniteSets, TLC

VARIABLES
    VARS,       \* calc.py:185  the variable environment (a dict)
    s,          \* Lexer.s      the input string of the current lexer
    pos,        \* Lexer.pos    the cursor
    tok,        \* Parser.tok   the lookahead token (NoTok before the first next())
    ast,        \* the value returned by Parser.parse()
    result,     \* the value returned by eval(ast)
    err,        \* message of the exception raised by parse() or eval(), "" if none
    pc,         \* position of the driver in calc(line)
    calls,      \* history: number of Lexer.next() calls made on the current lexer
    lastpos,    \* history: the cursor before the latest Lexer.next() call
    envBefore,  \* history: VARS when the current line was started
    log         \* history: the assign_var() calls of the latest eval, in order

vars == <<VARS, s, pos, tok, ast, result, err, pc, calls, lastpos, envBefore, log>>

-----------------------------------------------------------------------------
(* Bounds of the model *)

\* longest input string of the lexer specification
MaxLen == 4

\* integer literals of the session's operand lines are 0 .. MaxLit
MaxLit == 1

-----------------------------------------------------------------------------
(* Characters and strings *)

Digits == {"0", "1", "2", "3", "4", "5", "6", "7", "8", "9"}

Letters ==
    {"a", "b", "c", "d", "e", "f", "g", "h", "i", "j", "k", "l", "m",
     "n", "o", "p", "q", "r", "s", "t", "u", "v", "w", "x", "y", "z",
     "A", "B", "C", "D", "E", "F", "G", "H", "I", "J", "K", "L", "M",
     "N", "O", "P", "Q", "R", "S", "T", "U", "V", "W", "X", "Y", "Z"}

\* r'[ \t]+'
IgnoreChars == {" ", "\t"}

\* r'[+\-*/^()?:|&!@%=<>%]'
PunctChars ==
    {"+", "-", "*", "/", "^", "(", ")", "?", ":", "|", "&", "!", "@", "%",
     "=", "<", ">"}

\* r'==|!=|<=|>='
TwoCharOps == {<<"=", "=">>, <<"!", "=">>, <<"<", "=">>, <<">", "=">>}

\* ord() of the characters of the model's alphabet that no earlier rule takes
ord(c) ==
    CASE c = "$" -> 36
      [] c = "#" -> 35
      [] c = "." -> 46
      [] c = "," -> 44
      [] c = "_" -> 95
      [] c = "\r" -> 13
      [] c = "\n" -> 10

DigitVal(c) ==
    CASE c = "0" -> 0 [] c = "1" -> 1 [] c = "2" -> 2 [] c = "3" -> 3
      [] c = "4" -> 4 [] c = "5" -> 5 [] c = "6" -> 6 [] c = "7" -> 7
      [] c = "8" -> 8 [] c = "9" -> 9

DigitChar(n) == CHOOSE c \in Digits : DigitVal(c) = n

\* int(s) of a run of decimal digits
RECURSIVE int(_)
int(txt) ==
    IF Len(txt) = 0 THEN 0
    ELSE 10 * int(SubSeq(txt, 1, Len(txt) - 1)) + DigitVal(txt[Len(txt)])

\* str(n) of a non-negative integer
RECURSIVE str(_)
str(n) ==
    IF n < 10 THEN <<DigitChar(n)>>
    ELSE str(n \div 10) \o <<DigitChar(n % 10)>>

\* str.isalpha()
isalpha(txt) == Len(txt) > 0 /\ \A i \in 1..Len(txt) : txt[i] \in Letters

-----------------------------------------------------------------------------
(* Tokens and AST nodes *)

PyInt(n)  == [k |-> "int", v |-> n]
Str(txt)  == [k |-> "str", s |-> txt]
Tuple(a)  == [k |-> "tuple", a |-> a]

NoTok == [k |-> "none"]
NoAst == [k |-> "none"]

\* '$' denotes end of input
EndTok == Str(<<"$">>)

isinstance(e, type) == e.k = type

\* a str token or node that isalpha(): a variable name
IsName(e) == isinstance(e, "str") /\ isalpha(e.s)

-----------------------------------------------------------------------------
(* Lexer *)

\* end of the maximal run of characters of set cs that starts at 0-based p
RECURSIVE RunEnd(_, _, _)
RunEnd(txt, p, cs) ==
    IF p < Len(txt) /\ txt[p + 1] \in cs THEN RunEnd(txt, p + 1, cs) ELSE p

\* Lexer.next() with a digit rule that leaves the cursor where it was
MutLexerNextNoAdvance(txt, p0) ==
    LET p == RunEnd(txt, p0, IgnoreChars)
        c == txt[p + 1]
    IN  IF p >= Len(txt) THEN [tok |-> EndTok, pos |-> p]
        ELSE IF p + 2 <= Len(txt) /\ <<c, txt[p + 2]>> \in TwoCharOps
             THEN [tok |-> Str(<<c, txt[p + 2]>>), pos |-> p + 2]
        ELSE IF c \in Digits
             THEN [tok |-> PyInt(int(SubSeq(txt, p + 1, RunEnd(txt, p, Digits)))),
                   pos |-> p]
        ELSE IF c \in Letters
             THEN [tok |-> Str(SubSeq(txt, p + 1, RunEnd(txt, p, Letters))),
                   pos |-> RunEnd(txt, p, Letters)]
        ELSE IF c \in PunctChars
             THEN [tok |-> Str(<<c>>), pos |-> p + 1]
        ELSE IF c # "\n"
             THEN [tok |-> Str(<<"#">> \o str(ord(c))), pos |-> p + 1]
        ELSE [tok |-> EndTok, pos |-> p]

\* Lexer.next(): the token returned and the new cursor
Lexer_next(txt, p0) ==
    LET p == RunEnd(txt, p0, IgnoreChars)
        c == txt[p + 1]
    IN  IF p >= Len(txt) THEN [tok |-> EndTok, pos |-> p]
        ELSE IF p + 2 <= Len(txt) /\ <<c, txt[p + 2]>> \in TwoCharOps
             THEN [tok |-> Str(<<c, txt[p + 2]>>), pos |-> p + 2]
        ELSE IF c \in Digits
             THEN [tok |-> PyInt(int(SubSeq(txt, p + 1, RunEnd(txt, p, Digits)))),
                   pos |-> RunEnd(txt, p, Digits)]
        ELSE IF c \in Letters
             THEN [tok |-> Str(SubSeq(txt, p + 1, RunEnd(txt, p, Letters))),
                   pos |-> RunEnd(txt, p, Letters)]
        ELSE IF c \in PunctChars
             THEN [tok |-> Str(<<c>>), pos |-> p + 1]
        ELSE IF c # "\n"
             THEN [tok |-> Str(<<"#">> \o str(ord(c))), pos |-> p + 1]
        ELSE [tok |-> EndTok, pos |-> p]

-----------------------------------------------------------------------------
(* Parser.  The parser state p is [s, pos, tok, calls]; a parse function   *)
(* returns [p, e, err]: the state it leaves, the node it returns and the  *)
(* message of the ParseError it raised ("" if none).                       *)

\* Parser.next()
next(p) ==
    LET r == Lexer_next(p.s, p.pos)
    IN  [p EXCEPT !.pos = r.pos, !.tok = r.tok, !.calls = @ + 1]

\* Parser.error(msg)
error(p, msg) == [p |-> p, e |-> NoAst, err |-> msg]

Return(p, e) == [p |-> p, e |-> e, err |-> ""]

T(c) == Str(<<c>>)

CompareOps == {Str(<<"=", "=">>), Str(<<"!", "=">>), T("<"), Str(<<"<", "=">>),
               T(">"), Str(<<">", "=">>)}
AddOps     == {T("+"), T("-")}
MulOps     == {T("*"), T("/"), T("%")}
UnaryOps   == {T("-"), T("@")}

RECURSIVE parse_assign(_), parse_ternary(_), parse_or(_), parse_and(_),
          parse_not(_), parse_compare(_), parse_compare_loop(_, _),
          parse_add(_), parse_add_loop(_, _), parse_mul(_),
          parse_mul_loop(_, _), parse_unary(_), parse_pow(_), parse_factor(_)

\* a ParseError raised by a callee propagates; otherwise the caller goes on
\* with the callee's result
Bind(r, Rest(_)) == IF r.err # "" THEN r ELSE Rest(r)

parse_factor(p) ==
    IF isinstance(p.tok, "int") THEN Return(next(p), p.tok)
    ELSE IF IsName(p.tok) THEN Return(next(p), p.tok)
    ELSE IF p.tok = T("(")
         THEN Bind(parse_assign(next(p)),
                   LAMBDA r : IF r.p.tok # T(")") THEN error(r.p, "missing ')'")
                              ELSE Return(next(r.p), r.e))
    ELSE error(p, "expected int, variable, or '('")

parse_pow(p) ==
    Bind(parse_factor(p),
         LAMBDA l : IF l.p.tok = T("^")
                    THEN Bind(parse_pow(next(l.p)),
                              LAMBDA r : Return(r.p, Tuple(<<T("^"), l.e, r.e>>)))
                    ELSE l)

parse_unary(p) ==
    IF p.tok \in UnaryOps
    THEN Bind(parse_unary(next(p)),
              LAMBDA r : Return(r.p, Tuple(<<p.tok, r.e>>)))
    ELSE parse_pow(p)

\* the while loop of parse_mul, entered with e parsed so far
parse_mul_loop(p, e) ==
    IF p.tok \in MulOps
    THEN Bind(parse_unary(next(p)),
              LAMBDA r : parse_mul_loop(r.p, Tuple(<<p.tok, e, r.e>>)))
    ELSE Return(p, e)

parse_mul(p) ==
    Bind(parse_unary(p), LAMBDA l : parse_mul_loop(l.p, l.e))

\* the while loop of parse_add
parse_add_loop(p, e) ==
    IF p.tok \in AddOps
    THEN Bind(parse_mul(next(p)),
              LAMBDA r : parse_add_loop(r.p, Tuple(<<p.tok, e, r.e>>)))
    ELSE Return(p, e)

\* parse_add that parses its operands one level too low
MutParseAddSkipMul(p) ==
    Bind(parse_unary(p), LAMBDA l : parse_add_loop(l.p, l.e))

parse_add(p) ==
    Bind(parse_mul(p), LAMBDA l : parse_add_loop(l.p, l.e))

\* the while loop of parse_compare
parse_compare_loop(p, e) ==
    IF p.tok \in CompareOps
    THEN Bind(parse_add(next(p)),
              LAMBDA r : parse_compare_loop(r.p, Tuple(<<p.tok, e, r.e>>)))
    ELSE Return(p, e)

parse_compare(p) ==
    Bind(parse_add(p), LAMBDA l : parse_compare_loop(l.p, l.e))

parse_not(p) ==
    IF p.tok = T("!")
    THEN Bind(parse_not(next(p)),
              LAMBDA r : Return(r.p, Tuple(<<T("!"), r.e>>)))
    ELSE parse_compare(p)

parse_and(p) ==
    Bind(parse_not(p),
         LAMBDA l : IF l.p.tok = T("&")
                    THEN Bind(parse_and(next(l.p)),
                              LAMBDA r : Return(r.p, Tuple(<<T("&"), l.e, r.e>>)))
                    ELSE l)

parse_or(p) ==
    Bind(parse_and(p),
         LAMBDA l : IF l.p.tok = T("|")
                    THEN Bind(parse_or(next(l.p)),
                              LAMBDA r : Return(r.p, Tuple(<<T("|"), l.e, r.e>>)))
                    ELSE l)

parse_ternary(p) ==
    Bind(parse_or(p),
         LAMBDA c :
            IF c.p.tok = T("?")
            THEN Bind(parse_assign(next(c.p)),
                      LAMBDA t :
                         IF t.p.tok # T(":")
                         THEN error(t.p, "missing ':' in ternary expression")
                         ELSE Bind(parse_assign(next(t.p)),
                                   LAMBDA f :
                                      Return(f.p, Tuple(<<Str(<<"?", ":">>),
                                                          c.e, t.e, f.e>>))))
            ELSE c)

parse_assign(p) ==
    Bind(parse_ternary(p),
         LAMBDA l : IF IsName(l.e) /\ l.p.tok = T("=")
                    THEN Bind(parse_assign(next(l.p)),
                              LAMBDA r : Return(r.p, Tuple(<<T("="), l.e, r.e>>)))
                    ELSE l)

\* parse() without the check of the end marker
MutParseNoEndCheck(p) == parse_assign(p)

\* Parser.parse(): expression then end marker
parse(p) ==
    Bind(parse_assign(p),
         LAMBDA r : IF r.p.tok = EndTok THEN r
                    ELSE error(r.p, "extraneous input"))

-----------------------------------------------------------------------------
(* Python numbers: n/d in lowest terms with d > 0; fl: held as a float *)

Number(n) == [n |-> n, d |-> 1, fl |-> FALSE]

NoVal == [k |-> "none"]

Abs(n) == IF n < 0 THEN -n ELSE n

RECURSIVE GCD(_, _)
GCD(a, b) == IF b = 0 THEN a ELSE GCD(b, a % b)

Norm(n, d, fl) ==
    LET g == GCD(Abs(n), d) IN [n |-> n \div g, d |-> d \div g, fl |-> fl]

\* floor(x / y) for integers x and y # 0
Floor(x, y) == IF y > 0 THEN x \div y ELSE (-x) \div (-y)

RECURSIVE IntPow(_, _)
IntPow(b, x) == IF x = 0 THEN 1 ELSE b * IntPow(b, x - 1)

IsZero(a) == a.n = 0

py_neg(a) == [a EXCEPT !.n = -a.n]
py_abs(a) == [a EXCEPT !.n = Abs(a.n)]
py_add(a, b) == Norm(a.n * b.d + b.n * a.d, a.d * b.d, a.fl \/ b.fl)
py_mul(a, b) == Norm(a.n * b.n, a.d * b.d, a.fl \/ b.fl)
py_eq(a, b) == a.n * b.d = b.n * a.d
py_lt(a, b) == a.n * b.d < b.n * a.d

\* left // right, right # 0
py_floordiv(a, b) ==
    [n |-> Floor(a.n * b.d, a.d * b.n), d |-> 1, fl |-> a.fl \/ b.fl]

\* left % right, right # 0: left - right * floor(left / right)
py_mod(a, b) ==
    py_add(a, py_neg(py_mul(b, Number(Floor(a.n * b.d, a.d * b.n)))))

\* left ** right for an integral right; a negative exponent gives a float
py_pow(a, b) ==
    IF b.n >= 0
    THEN Norm(IntPow(a.n, b.n), IntPow(a.d, b.n), a.fl \/ b.fl)
    ELSE LET num == IntPow(a.d, -b.n)
             den == IntPow(a.n, -b.n)
         IN  IF den > 0 THEN Norm(num, den, TRUE) ELSE Norm(-num, -den, TRUE)

Bool(b) == IF b THEN Number(1) ELSE Number(0)

-----------------------------------------------------------------------------
(* Evaluation.  m is [VARS, log]: the global dict and the history of        *)
(* assign_var calls.  eval returns [val, m, err]: the value returned, the  *)
(* memory it leaves and the message of the exception raised ("" if none).  *)

\* VARS.get(name, 0)
VARS_get(env, name) == IF name \in DOMAIN env THEN env[name] ELSE Number(0)

\* assign_var that returns the value without storing it
MutAssignVarNoStore(m, name, value) ==
    [VARS |-> m.VARS, log |-> Append(m.log, <<name, value>>)]

\* assign_var(name, value)
assign_var(m, name, value) ==
    [VARS |-> [x \in DOMAIN m.VARS \cup {name} |->
                  IF x = name THEN value ELSE m.VARS[x]],
     log  |-> Append(m.log, <<name, value>>)]

Value(v, m) == [val |-> v, m |-> m, err |-> ""]
Raise(m, msg) == [val |-> NoVal, m |-> m, err |-> msg]

ZeroDivisionError == "ZeroDivisionError"
ValueError == "ValueError"
TypeError == "TypeError"
\* a float raised to a non-integral power: outside the numbers modelled
Unmodelled == "Unmodelled"

Op(txt) == Str(txt)

\* a division that returns 0 when the divisor is 0
MutFloordivZero(left, right, m) ==
    IF IsZero(right) THEN Value(Number(0), m)
    ELSE Value(py_floordiv(left, right), m)

\* lines 255-256: left // right raises ZeroDivisionError on a zero divisor
floordiv(left, right, m) ==
    IF IsZero(right) THEN Raise(m, ZeroDivisionError)
    ELSE Value(py_floordiv(left, right), m)

\* lines 251-277: the operator applied to both evaluated operands
apply_binary(op, left, right, m) ==
    IF op = T("+") THEN Value(py_add(left, right), m)
    ELSE IF op = T("*") THEN Value(py_mul(left, right), m)
    ELSE IF op = T("/") THEN floordiv(left, right, m)
    ELSE IF op = T("%")
         THEN IF IsZero(right) THEN Raise(m, ZeroDivisionError)
              ELSE Value(py_mod(left, right), m)
    ELSE IF op = T("^")
         THEN IF right.d # 1 THEN Raise(m, Unmodelled)
              ELSE IF IsZero(left) /\ right.n < 0
                   THEN Raise(m, ZeroDivisionError)
              ELSE Value(py_pow(left, right), m)
    ELSE IF op = Op(<<"=", "=">>) THEN Value(Bool(py_eq(left, right)), m)
    ELSE IF op = Op(<<"!", "=">>) THEN Value(Bool(~py_eq(left, right)), m)
    ELSE IF op = T("<") THEN Value(Bool(py_lt(left, right)), m)
    ELSE IF op = Op(<<"<", "=">>) THEN Value(Bool(~py_lt(right, left)), m)
    ELSE IF op = T(">") THEN Value(Bool(py_lt(right, left)), m)
    ELSE IF op = Op(<<">", "=">>) THEN Value(Bool(~py_lt(left, right)), m)
    ELSE Raise(m, ValueError)

RECURSIVE eval(_, _)

\* lines 204-208: assignment
eval_assign(e, m) ==
    LET r == eval(e.a[3], m)
    IN  IF r.err # "" THEN r
        ELSE Value(r.val, assign_var(r.m, e.a[2].s, r.val))

\* lines 210-216: ternary
eval_ternary(e, m) ==
    LET c == eval(e.a[2], m)
    IN  IF c.err # "" THEN c
        ELSE IF ~IsZero(c.val) THEN eval(e.a[3], c.m)
        ELSE eval(e.a[4], c.m)

\* lines 218-223: OR
eval_or(e, m) ==
    LET l == eval(e.a[2], m)
    IN  IF l.err # "" THEN l
        ELSE IF ~IsZero(l.val) THEN l
        ELSE eval(e.a[3], l.m)

\* AND that evaluates its right operand whatever the left one is
MutEvalAndEager(e, m) ==
    LET l == eval(e.a[2], m)
        r == eval(e.a[3], l.m)
    IN  IF l.err # "" THEN l
        ELSE IF r.err # "" THEN r
        ELSE IF IsZero(l.val) THEN Value(Number(0), r.m)
        ELSE r

\* lines 225-230: AND
eval_and(e, m) ==
    LET l == eval(e.a[2], m)
    IN  IF l.err # "" THEN l
        ELSE IF IsZero(l.val) THEN Value(Number(0), l.m)
        ELSE eval(e.a[3], l.m)

\* lines 232-234: logical NOT
eval_not(e, m) ==
    LET r == eval(e.a[2], m)
    IN  IF r.err # "" THEN r ELSE Value(Bool(IsZero(r.val)), r.m)

\* lines 236-238: op == '-', whatever the number of operands
eval_minus(e, m) ==
    LET r == eval(e.a[2], m)
    IN  IF r.err # "" THEN r ELSE Value(py_neg(r.val), r.m)

\* lines 240-242: absolute value
eval_abs(e, m) ==
    LET r == eval(e.a[2], m)
    IN  IF r.err # "" THEN r ELSE Value(py_abs(r.val), r.m)

\* lines 244-277: left, then right, then the operator
eval_binary(e, m) ==
    LET l == eval(e.a[2], m)
    IN  IF l.err # "" THEN l
        ELSE IF Len(e.a) < 3 THEN Raise(l.m, TypeError)
        ELSE LET r == eval(e.a[3], l.m)
             IN  IF r.err # "" THEN r
                 ELSE apply_binary(e.a[1], l.val, r.val, r.m)

eval(e, m) ==
    IF isinstance(e, "int") THEN Value(Number(e.v), m)
    ELSE IF isinstance(e, "str") THEN Value(VARS_get(m.VARS, e.s), m)
    ELSE IF isinstance(e, "tuple") THEN
        LET op == e.a[1]
        IN  IF op = T("=") THEN eval_assign(e, m)
            ELSE IF op = Op(<<"?", ":">>) THEN eval_ternary(e, m)
            ELSE IF op = T("|") THEN eval_or(e, m)
            ELSE IF op = T("&") THEN eval_and(e, m)
            ELSE IF op = T("!") THEN eval_not(e, m)
            ELSE IF op = T("-") THEN eval_minus(e, m)
            ELSE IF op = T("@") THEN eval_abs(e, m)
            ELSE eval_binary(e, m)
    ELSE Raise(m, ValueError)

-----------------------------------------------------------------------------
(* The driver: calc(line) is Parser(line), then parse(), then eval() *)

Finished == {"parse_error", "done", "runtime_error"}

\* Parser(line): a new Lexer at cursor 0, then the first next()
NewParser(line) ==
    /\ pc = "idle"
    /\ LET p == next([s |-> line, pos |-> 0, tok |-> NoTok, calls |-> 0])
       IN  /\ s' = line
           /\ pos' = p.pos
           /\ tok' = p.tok
           /\ calls' = p.calls
    /\ lastpos' = 0
    /\ ast' = NoAst
    /\ result' = NoVal
    /\ err' = ""
    /\ envBefore' = VARS
    /\ log' = <<>>
    /\ pc' = "ready"
    /\ UNCHANGED VARS

\* Parser.parse()
Parse ==
    /\ pc = "ready"
    /\ LET r == parse([s |-> s, pos |-> pos, tok |-> tok, calls |-> calls])
       IN  /\ pos' = r.p.pos
           /\ tok' = r.p.tok
           /\ calls' = r.p.calls
           /\ ast' = r.e
           /\ err' = r.err
           /\ pc' = IF r.err = "" THEN "parsed" ELSE "parse_error"
    /\ UNCHANGED <<VARS, s, result, lastpos, envBefore, log>>

\* eval(ast)
Eval ==
    /\ pc = "parsed"
    /\ LET r == eval(ast, [VARS |-> VARS, log |-> <<>>])
       IN  /\ VARS' = r.m.VARS
           /\ log' = r.m.log
           /\ result' = r.val
           /\ err' = r.err
           /\ pc' = IF r.err = "" THEN "done" ELSE "runtime_error"
    /\ UNCHANGED <<s, pos, tok, ast, calls, lastpos, envBefore>>

\* calc(line) has returned or raised: the driver's loop goes to its next line,
\* the Parser, the AST and the result are dropped and only VARS lives on
NextLine ==
    /\ pc \in Finished
    /\ s' = <<>>
    /\ pos' = 0
    /\ tok' = NoTok
    /\ ast' = NoAst
    /\ result' = NoVal
    /\ err' = ""
    /\ calls' = 0
    /\ lastpos' = 0
    /\ envBefore' = VARS
    /\ log' = <<>>
    /\ pc' = "idle"
    /\ UNCHANGED VARS

\* Parser.next() called on its own: tok = lexer.next()
ParserNext ==
    /\ pc \in {"new", "ready", "lexing"}
    /\ calls <= Len(s) + 1
    /\ LET p == next([s |-> s, pos |-> pos, tok |-> tok, calls |-> calls])
       IN  /\ pos' = p.pos
           /\ tok' = p.tok
           /\ calls' = p.calls
    /\ lastpos' = pos
    /\ pc' = IF pc = "new" THEN "ready" ELSE "lexing"
    /\ UNCHANGED <<VARS, s, ast, result, err, envBefore, log>>

-----------------------------------------------------------------------------
(* Input lines *)

RECURSIVE Join(_)
\* the words separated by single spaces
Join(words) ==
    IF Len(words) = 0 THEN <<>>
    ELSE IF Len(words) = 1 THEN words[1]
    ELSE words[1] \o <<" ">> \o Join(Tail(words))

Paren(txt) == <<"(">> \o txt \o <<")">>

X == <<"x">>
Y == <<"y">>
Z == <<"z">>
W == <<"w">>

BinOps ==
    {<<"|">>, <<"&">>, <<"=", "=">>, <<"!", "=">>, <<"<">>, <<"<", "=">>,
     <<">">>, <<">", "=">>, <<"+">>, <<"-">>, <<"*">>, <<"/">>, <<"%">>,
     <<"^">>}

Literals == {str(n) : n \in 0..MaxLit}

AssignX == Paren(Join(<<X, <<"=">>, <<"1">>>>))
AssignY == Paren(Join(<<Y, <<"=">>, <<"0">>>>))
DivZero == Paren(Join(<<<<"1">>, <<"/">>, <<"0">>>>))
Minus2  == Paren(Join(<<<<"-">>, <<"2">>>>))

Operands == Literals \cup {X, Y, AssignX, AssignY, DivZero, Minus2}

BinaryLines == {Join(<<l, op, r>>) : l \in Operands, op \in BinOps, r \in Operands}

Branches == {AssignX, AssignY, DivZero, <<"7">>}

TernaryLines ==
    {Join(<<c, <<"?">>, t, <<":">>, f>>) :
        c \in Operands, t \in Branches, f \in Branches}

AssignLines ==
    {Join(<<X, <<"=">>, <<"5">>>>),
     Join(<<X, <<"=">>, Y, <<"=">>, <<"3">>>>),
     Join(<<X, <<"=">>, <<"-">>, <<"2">>>>),
     Join(<<X, <<"=">>, <<"1">>, <<"/">>, <<"0">>>>),
     Join(<<Y, <<"=">>, <<"1">>, <<"%">>, <<"0">>>>),
     Join(<<X, <<"=">>, Y, <<"=">>, <<"1">>, <<"/">>, <<"0">>>>),
     Join(<<Z, <<"=">>, <<"2">>, <<"^">>, Paren(Join(<<<<"-">>, <<"1">>>>))>>),
     Join(<<Z, <<"+">>, <<"1">>>>),
     Join(<<Z, <<"*">>, <<"2">>>>),
     Join(<<Z, <<"/">>, <<"2">>>>),
     Join(<<<<"3">>, <<"%">>, Z>>),
     Join(<<<<"-">>, X>>),
     Join(<<<<"@">>, X>>),
     Join(<<<<"!">>, X>>),
     <<"5", "-", "3">>,
     X, Y, Z, W}

\* lines that do not follow the grammar
MalformedLines ==
    {Join(<<X, <<"=">>, <<"5">>, <<")">>>>),
     Join(<<<<"(">>, X, <<"=">>, <<"5">>>>),
     Join(<<X, <<"=">>, <<"5">>, <<"+">>>>),
     Join(<<X, <<"=">>, <<"5">>, <<"$">>>>),
     Join(<<X, <<"=">>, <<"5">>, <<"?">>, <<"1">>>>),
     Join(<<X, <<"=">>, <<"5">>, Y, <<"=">>, <<"0">>>>),
     Join(<<AssignX, <<"+">>, AssignY, <<"=">>, <<"2">>>>),
     Join(<<Y, <<"=">>, <<"1">>, <<"^">>, <<"-">>, <<"1">>>>),
     Join(<<X, <<"=">>, <<"5">>, <<",">>, <<"1">>>>)}

Lines == BinaryLines \cup TernaryLines \cup AssignLines \cup MalformedLines

\* the characters of the lexer specification's inputs
LexAlphabet == {"1", "x", "+", "=", "(", " ", "\n", "$"}

LexInputs == UNION {[1..n -> LexAlphabet] : n \in 0..MaxLen}

-----------------------------------------------------------------------------
(* Specifications *)

Init ==
    /\ VARS = <<>>
    /\ s = <<>>
    /\ pos = 0
    /\ tok = NoTok
    /\ ast = NoAst
    /\ result = NoVal
    /\ err = ""
    /\ pc = "idle"
    /\ calls = 0
    /\ lastpos = 0
    /\ envBefore = <<>>
    /\ log = <<>>

\* a session: calc(line) for one line after the other
Next ==
    \/ pc = "idle" /\ \E line \in Lines : NewParser(line)
    \/ Parse
    \/ Eval
    \/ NextLine

Spec == Init /\ [][Next]_vars

\* a Lexer constructed on any input, driven through Parser.next() and parse()
InitLexer ==
    /\ VARS = <<>>
    /\ s \in LexInputs
    /\ pos = 0
    /\ tok = NoTok
    /\ ast = NoAst
    /\ result = NoVal
    /\ err = ""
    /\ pc = "new"
    /\ calls = 0
    /\ lastpos = 0
    /\ envBefore = <<>>
    /\ log = <<>>

NextLexer ==
    \/ ParserNext
    \/ Parse

SpecLexer == InitLexer /\ [][NextLexer]_vars

-----------------------------------------------------------------------------
(* Properties of a session (Spec) *)

\* the memory eval starts from on the current line
M0 == [VARS |-> envBefore, log |-> <<>>]

\* env after the assignments of lg, in order
RECURSIVE ApplyLog(_, _)
ApplyLog(env, lg) ==
    IF Len(lg) = 0 THEN env
    ELSE ApplyLog([x \in DOMAIN env \cup {lg[1][1]} |->
                      IF x = lg[1][1] THEN lg[1][2] ELSE env[x]],
                  Tail(lg))

IsBinary(e) == isinstance(e, "tuple") /\ Len(e.a) = 3
IsUnary(e)  == isinstance(e, "tuple") /\ Len(e.a) = 2

ArithCmpOps ==
    {T("+"), T("-"), T("*"), T("/"), T("%"), T("^")} \cup CompareOps

IsInteger(v) == ~v.fl /\ v.d = 1

\* C1: a BinaryOp node with op '+', '-' or '*' whose operands evaluate to a
\* and b returns a + b, a - b or a * b; a unary '-' node returns the negation
\* of its operand.
C1_Arithmetic ==
    pc = "done" /\ isinstance(ast, "tuple") =>
        LET op == ast.a[1]
            l  == eval(ast.a[2], M0)
        IN  /\ IsBinary(ast) /\ op \in {T("+"), T("-"), T("*")} =>
                LET r == eval(ast.a[3], l.m)
                IN  l.err = "" /\ r.err = "" =>
                        result = CASE op = T("+") -> py_add(l.val, r.val)
                                   [] op = T("-") -> py_add(l.val, py_neg(r.val))
                                   [] op = T("*") -> py_mul(l.val, r.val)
            /\ IsUnary(ast) /\ op = T("-") => result = py_neg(l.val)

\* C2: the right operand of '&' after a zero left operand, the right operand
\* of '|' after a nonzero left operand and the branch of a ternary that the
\* condition does not select are not evaluated: the outcome and the
\* environment are those of the evaluated parts alone, the result is 0 for
\* '&', the left value for '|' and the selected branch's value for '?:'.
C2_ShortCircuit ==
    /\ pc \in Finished /\ isinstance(ast, "tuple") =>
        LET op == ast.a[1]
            c  == eval(ast.a[2], M0)
        IN  c.err = "" =>
            /\ op = T("&") /\ IsZero(c.val) =>
                   /\ pc = "done"
                   /\ result = Number(0)
                   /\ VARS = c.m.VARS
                   /\ log = c.m.log
            /\ op = T("|") /\ ~IsZero(c.val) =>
                   /\ pc = "done"
                   /\ result = c.val
                   /\ VARS = c.m.VARS
                   /\ log = c.m.log
            /\ op = Op(<<"?", ":">>) =>
                   LET b == eval(IF IsZero(c.val) THEN ast.a[4] ELSE ast.a[3],
                                 c.m)
                   IN  /\ result = b.val
                       /\ err = b.err
                       /\ VARS = b.m.VARS
                       /\ log = b.m.log
    /\ \A r \in Operands :
        /\ s = Join(<<<<"0">>, <<"&">>, r>>) /\ pc \in Finished =>
               pc = "done" /\ result = Number(0) /\ VARS = envBefore
        /\ s = Join(<<<<"1">>, <<"|">>, r>>) /\ pc \in Finished =>
               pc = "done" /\ result = Number(1) /\ VARS = envBefore
        /\ s = Join(<<r, <<"?">>, <<"7">>, <<":">>, DivZero>>) /\ pc = "done" =>
               result = Number(7)

C2_Witness ==
    /\ pc = "done"
    /\ s = Join(<<<<"0">>, <<"&">>, AssignX>>)
    /\ X \in DOMAIN envBefore
    /\ envBefore[X] = Number(5)
    /\ VARS[X] = Number(5)

C4_BothOperands ==
    pc \in Finished /\ IsBinary(ast) /\ ast.a[1] \in ArithCmpOps =>
        LET l == eval(ast.a[2], M0)
            r == eval(ast.a[3], l.m)
        IN  l.err = "" =>
            /\ r.err # "" => pc = "runtime_error" /\ err = r.err
            /\ r.err = "" => VARS = r.m.VARS /\ log = r.m.log

\* C5: a division or modulo whose right operand evaluates to 0 parses, and
\* raises a runtime failure at evaluation without returning a value; the
\* assignments evaluated before the failure stay, those after it are not
\* performed.
C5_DivisionByZero ==
    /\ pc \in Finished /\ IsBinary(ast) /\ ast.a[1] \in {T("/"), T("%")} =>
        LET l == eval(ast.a[2], M0)
            r == eval(ast.a[3], l.m)
        IN  l.err = "" /\ r.err = "" /\ r.val.n = 0 =>
                /\ pc = "runtime_error"
                /\ err = ZeroDivisionError
                /\ result = NoVal
                /\ log = r.m.log
                /\ VARS = ApplyLog(envBefore, r.m.log)
    /\ \A op \in {<<"/">>, <<"%">>} :
        \A l \in Literals \cup {X, Y, AssignX, AssignY, Minus2} :
            s = Join(<<l, op, <<"0">>>>) => pc \in {"ready", "parsed", "runtime_error"}
    /\ s = Join(<<AssignX, <<"+">>, DivZero>>) /\ pc \in Finished =>
        /\ pc = "runtime_error"
        /\ VARS = ApplyLog(envBefore, <<<<X, Number(1)>>>>)
    /\ s = Join(<<DivZero, <<"+">>, AssignX>>) /\ pc \in Finished =>
        pc = "runtime_error" /\ VARS = envBefore
    /\ s \in {Join(<<X, <<"=">>, <<"1">>, <<"/">>, <<"0">>>>),
              Join(<<Y, <<"=">>, <<"1">>, <<"%">>, <<"0">>>>),
              Join(<<X, <<"=">>, Y, <<"=">>, <<"1">>, <<"/">>, <<"0">>>>)}
       /\ pc \in Finished =>
        pc = "runtime_error" /\ VARS = envBefore

C5_Witness ==
    /\ pc = "runtime_error"
    /\ s = Join(<<AssignX, <<"/">>, AssignY>>)
    /\ X \notin DOMAIN envBefore
    /\ VARS[X] = Number(1)
    /\ VARS[Y] = Number(0)

\* C8: every value eval returns and every value stored in the environment
\* is an integer.
C8_IntegerOnly ==
    /\ pc = "done" => IsInteger(result)
    /\ \A name \in DOMAIN VARS : IsInteger(VARS[name])

\* C9: a line that fails to parse leaves the environment as it was: no
\* assignment of the line is performed, and a malformed line is never
\* evaluated.
C9_ParseFailureFrame ==
    /\ pc = "parse_error" =>
        VARS = envBefore /\ log = <<>> /\ result = NoVal /\ ast = NoAst
    /\ s \in MalformedLines =>
        pc \in {"ready", "parse_error"} /\ VARS = envBefore

C9_Witness ==
    /\ pc = "parse_error"
    /\ s = Join(<<X, <<"=">>, <<"5">>, <<")">>>>)
    /\ X \in DOMAIN VARS
    /\ VARS[X] = Number(3)

\* the numbers the model does not represent are never needed
ModelCovers == err # Unmodelled

-----------------------------------------------------------------------------
(* Properties of the lexer and of parse() on any input (SpecLexer) *)

\* C6: next() returns the end-of-input token only with the cursor at the end
\* of the input, so parse() returns an AST only when the whole input has
\* been consumed.
C6_EndOfInput ==
    /\ tok = EndTok => pos = Len(s)
    /\ pc = "parsed" => pos = Len(s)

\* C10: the cursor never decreases and never exceeds the length of the
\* input; a call of next() advances the cursor or returns end-of-input; once
\* end-of-input was returned, every later call returns it with the cursor
\* unchanged; parse() ends with an AST or a parse failure after at most
\* Len(s) + 1 calls of next().
C10_LexerProgress ==
    [][/\ pos' >= pos
       /\ pos' <= Len(s')
       /\ calls' = calls + 1 => pos' > pos \/ tok' = EndTok
       /\ tok = EndTok => tok' = EndTok /\ pos' = pos
       /\ pc = "ready" /\ pc' \in {"parsed", "parse_error"} =>
            /\ calls' <= Len(s) + 1
            /\ (pc' = "parsed") = (ast' # NoAst)
            /\ (pc' = "parse_error") = (err' # "")]_vars

C10_Witness ==
    /\ pc = "lexing"
    /\ tok = EndTok
    /\ lastpos = pos
    /\ calls = Len(s) + 2
    /\ Len(s) >= 3

-----------------------------------------------------------------------------
(* Precedence and associativity (SpecParser) *)

\* level of a binary operator in the grammar, tighter levels are greater
Level(op) ==
    CASE op = <<"=">> -> 1
      [] op = <<"|">> -> 3
      [] op = <<"&">> -> 4
      [] op = <<"!">> -> 5
      [] op \in {<<"=", "=">>, <<"!", "=">>, <<"<">>, <<"<", "=">>, <<">">>,
                 <<">", "=">>} -> 6
      [] op \in {<<"+">>, <<"-">>} -> 7
      [] op \in {<<"*">>, <<"/">>, <<"%">>} -> 8
      [] op = <<"^">> -> 10

RightAssoc == {1, 3, 4, 10}

\* an atom: its text and the node it stands for
Atom(txt, node) == [txt |-> txt, node |-> node]

Sum23 ==
    Atom(Paren(Join(<<<<"2">>, <<"+">>, <<"3">>>>)),
         Tuple(<<T("+"), PyInt(2), PyInt(3)>>))

AtomsA == {Atom(X, Str(X)), Atom(<<"2">>, PyInt(2)), Sum23}
AtomsB == {Atom(Y, Str(Y)), Atom(<<"3">>, PyInt(3)), Sum23}
AtomsC == {Atom(Z, Str(Z)), Atom(<<"4">>, PyInt(4)), Sum23}

Node(op, l, r) == Tuple(<<Str(op), l, r>>)

\* the tree of a op1 b op2 c by the precedence table
Expected(a, op1, b, op2, c) ==
    IF \/ Level(op1) > Level(op2)
       \/ Level(op1) = Level(op2) /\ Level(op1) \notin RightAssoc
    THEN Node(op2, Node(op1, a.node, b.node), c.node)
    ELSE Node(op1, a.node, Node(op2, b.node, c.node))

\* the operators of the table: the binary operators and '='
PrecOps == BinOps \cup {<<"=">>}

\* each line with the tree the table gives it; ok: the line follows the
\* grammar, where the left side of '=' is a bare identifier
PrecTable ==
    {[line |-> Join(<<a.txt, op1, b.txt, op2, c.txt>>),
      tree |-> Expected(a, op1, b, op2, c),
      ok   |-> IF op1 = <<"=">>
               THEN IsName(a.node) /\ (op2 = <<"=">> => IsName(b.node))
               ELSE op2 # <<"=">>] :
        a \in AtomsA, op1 \in PrecOps, b \in AtomsB, op2 \in PrecOps, c \in AtomsC}
    \cup
    {[line |-> Join(<<<<"!">>, a.txt, op, b.txt>>),
      tree |-> IF Level(op) > Level(<<"!">>)
               THEN Tuple(<<T("!"), Node(op, a.node, b.node)>>)
               ELSE Node(op, Tuple(<<T("!"), a.node>>), b.node),
      ok   |-> op # <<"=">>] :
        a \in AtomsA, op \in PrecOps, b \in AtomsB}
    \cup
    {[line |-> Join(<<a.txt, op, b.txt, <<"?">>, c.txt, <<":">>, a.txt>>),
      tree |-> IF op = <<"=">>
               THEN Node(op, a.node, Tuple(<<Str(<<"?", ":">>), b.node, c.node,
                                             a.node>>))
               ELSE Tuple(<<Str(<<"?", ":">>), Node(op, a.node, b.node), c.node,
                            a.node>>),
      ok   |-> op = <<"=">> => IsName(a.node)] :
        a \in AtomsA, op \in PrecOps, b \in AtomsB, c \in AtomsC}
    \cup
    {[line |-> Join(<<a.txt, <<"?">>, b.txt, <<":">>, c.txt, op, a.txt>>),
      tree |-> Tuple(<<Str(<<"?", ":">>), a.node, b.node,
                       Node(op, c.node, a.node)>>),
      ok   |-> op = <<"=">> => IsName(c.node)] :
        a \in AtomsA, op \in PrecOps, b \in AtomsB, c \in AtomsC}

PrecLines == {r.line : r \in PrecTable}

NextParser ==
    \/ pc = "idle" /\ \E line \in PrecLines : NewParser(line)
    \/ Parse
    \/ NextLine

\* Parser(line).parse() for the lines of the precedence table
SpecParser == Init /\ [][NextParser]_vars

\* C7: the parser builds the tree the precedence table gives: tighter levels
\* group first, the add, mul and comparison levels group to the left, '^',
\* '|', '&' and '=' to the right, a parenthesized expression is one atom; a
\* line parses exactly when it follows the grammar.
C7_Precedence ==
    pc \in {"parsed", "parse_error"} =>
        \A r \in PrecTable :
            r.line = s =>
                /\ (pc = "parsed") = r.ok
                /\ pc = "parsed" => ast = r.tree

C7_Witness ==
    /\ pc = "parsed"
    /\ s = Join(<<<<"2">>, <<"^">>, <<"3">>, <<"^">>, Paren(Join(<<<<"2">>, <<"+">>, <<"3">>>>))>>)
    /\ ast = Node(<<"^">>, PyInt(2), Node(<<"^">>, PyInt(3), Sum23.node))

====
